---------------------------- MODULE Spec2Model ----------------------------
(***************************************************************************)
(* Hyperspecter: the acquisition pipeline (hyperspecter_app.py), the       *)
(* acquisition session (microscope_controller.py over ADIO.py) and the     *)
(* waveform generator / frame decoder (utils.py, process_frame).           *)
(*                                                                         *)
(* Threads.  The GUI thread runs the handler acquire_toggle; the timer's   *)
(* update() is an input of acquire_scan.  Each accepted start creates one  *)
(* queue, one consumer thread (process_frames) and one producer thread     *)
(* (acquire_frame, acquire_scan or MicroscopeController.get_frames).  A    *)
(* run r is that triple.  The two flags Hyperspecter.acquiring and         *)
(* MicroscopeController.acquiring and the attributes microscope.pmts /     *)
(* microscope.galvos are shared by all runs.                               *)
(*                                                                         *)
(* Specifications.  Spec: one acquisition at a time, every setting.        *)
(* OverlapSpec: starts while earlier threads are alive, hardware settings. *)
(* WaveSpec: the waveform generator and the decoder on drawn attributes.   *)
(***************************************************************************)
EXTENDS Integers, Sequences, FiniteSets, TLC

\* ------------------------------------------------------------------ bounds
MaxRuns == 2
MaxOverlaps == 1
MaxMonitorFrames == 2
MaxWavenumber == 2
MaxStep == 2
MaxRes == 3
MaxDen == 3
MaxFlyback == 2
MaxPad == 1
MaxChannels == 2
MaxAmplitude == 30
MaxOffset == 12
MaxExtra == 1

\* ------------------------------------------------------- program constants
\* "import mcc" succeeded (hyperspecter_app.py 21-27): the PMT board is present
mcc_loaded == TRUE
SimScanFrames == 10
PolySlope == 11
PolyIntercept == 723700

Runs == 1..MaxRuns
None == 0

\* What gui.getSettings() can return: the scan range is varied for Scan mode,
\* and left at the widgets' initial values for the other two modes
DefaultSettings == [mode |-> "Single Frame", simulate |-> FALSE,
                    start |-> 0, end |-> 0, step |-> 1]
Settings ==
    [mode : {"Single Frame", "Monitor"}, simulate : BOOLEAN,
     start : {0}, end : {0}, step : {1}]
    \cup [mode : {"Scan"}, simulate : BOOLEAN,
          start : 0..MaxWavenumber, end : 0..MaxWavenumber, step : 1..MaxStep]

\* The settings used when acquisitions overlap
OverlapSettings ==
    [mode : {"Single Frame", "Monitor"}, simulate : {FALSE},
     start : {0}, end : {0}, step : {1}]
    \cup [mode : {"Scan"}, simulate : {FALSE},
          start : {0}, end : {MaxWavenumber}, step : {MaxStep}]

VARIABLES
    appAcquiring,     \* Hyperspecter.acquiring
    micAcquiring,     \* MicroscopeController.acquiring
    micSimulate,      \* MicroscopeController.simulate
    settings,         \* Hyperspecter.settings while acquire() reads it
    PMT_powered,      \* Hyperspecter.PMT_powered
    microscope_open,  \* Hyperspecter.microscope_open
    gui,              \* GUI thread: "ready", or "acquire2" (inside acquire)
    cur,              \* the latest run started (0 before the first)
    mode,             \* per run: the producer strategy started, "none" before
    ppc,              \* per run: producer position
    cpc,              \* per run: consumer position
    image_q,          \* per run: the queue (frames k >= 1, None = 0)
    pushed,           \* per run: everything the producer has put, in order
    forwarded,        \* per run: frames the consumer passed to the sinks
    positions,        \* per run: delay_positions of the scan (acquire_scan)
    idx,              \* per run: loop index of acquire_scan
    scanSim,          \* per run: acquire_scan took the simulate branch
    monSim,           \* per run: get_frames took the simulate branch
    failure,          \* per run: "none", or what ended the producer's work
    stopReq,          \* per run: a stop request (button or close) came during it
    pmts,             \* task behind microscope.pmts
    galvos,           \* task behind microscope.galvos
    overlaps,         \* starts accepted while a thread of an earlier run lived
    clearedAt,        \* per run: <<frames pushed so far>> when stop_acquire first
                      \* ran with the producer inside get_frames' loop or
                      \* inside acquire_scan
    moved,            \* per run: the positions passed to delay_stage.move_abs
    scanArgs,         \* per run: <<start, end, step>> as acquire_scan read them
    wpc,              \* waveform bench: "off", "args", "configured", "failed", "decoded"
    args,             \* waveform bench: the microscope's attributes
    wave,             \* waveform bench: what __configure_microscope computed
    raw_block,        \* waveform bench: the raw block given to process_frame
    decoded           \* waveform bench: what process_frame returned

waveVars == <<wpc, args, wave, raw_block, decoded>>

pipeVars == <<appAcquiring, micAcquiring, micSimulate, settings,
              PMT_powered, microscope_open, gui, cur, mode, ppc, cpc, image_q,
              pushed, forwarded, positions, idx, scanSim, monSim, failure,
              stopReq, pmts, galvos, overlaps, clearedAt, moved, scanArgs>>

\* ------------------------------------------------------------ hardware tasks
\* A task object: made (constructed and assigned), started (task_started),
\* cleared (ClearTask issued), written (waveform written; output task only).
NoTask == [made |-> FALSE, started |-> FALSE, cleared |-> FALSE, written |-> FALSE]
NewTask == [made |-> TRUE, started |-> FALSE, cleared |-> FALSE, written |-> FALSE]

\* AnalogOutput.write: WriteAnalogF64 then self.start()
AOWrite(t) == [t EXCEPT !.written = TRUE, !.started = TRUE]
\* AnalogInput.start / AnalogOutput.start
TaskStart(t) == [t EXCEPT !.started = TRUE]
\* stop(): StopTask only if task_started
TaskStop(t) == [t EXCEPT !.started = FALSE]
\* clear(): stop if started, then ClearTask
TaskClear(t) == [t EXCEPT !.started = FALSE, !.cleared = TRUE]

Held(t) == t.made /\ ~t.cleared

\* --------------------------------------------------------------- scan plan
\* np.arange(start, end+step, step) with the step's sign reversed when end < start
ScanPoints(start, end, step) ==
    LET stp == IF end < start THEN -step ELSE step
        stop == end + stp
        span == IF stp > 0 THEN stop - start ELSE start - stop
        n == (span + step - 1) \div step
    IN  [i \in 1..n |-> start + (i - 1) * stp]

\* A stage driven in wavenumbers, without the calibration polynomial
DelayPosition_identity(w) == w
\* np.polyval(self.wavenumber_to_delay, w), in units of 1e-4 mm
DelayPosition(w) == PolySlope * w + PolyIntercept

\* ------------------------------------------------------------------- Init
PipeInit ==
    /\ appAcquiring = FALSE
    /\ micAcquiring = FALSE
    /\ micSimulate = FALSE
    /\ settings = DefaultSettings
    /\ PMT_powered = FALSE
    /\ microscope_open = FALSE
    /\ gui = "ready"
    /\ cur = 0
    /\ mode = [r \in Runs |-> "none"]
    /\ ppc = [r \in Runs |-> "idle"]
    /\ cpc = [r \in Runs |-> "idle"]
    /\ image_q = [r \in Runs |-> <<>>]
    /\ pushed = [r \in Runs |-> <<>>]
    /\ forwarded = [r \in Runs |-> <<>>]
    /\ positions = [r \in Runs |-> <<>>]
    /\ idx = [r \in Runs |-> 0]
    /\ scanSim = [r \in Runs |-> FALSE]
    /\ monSim = [r \in Runs |-> FALSE]
    /\ failure = [r \in Runs |-> "none"]
    /\ stopReq = [r \in Runs |-> FALSE]
    /\ pmts = NoTask
    /\ galvos = NoTask
    /\ overlaps = 0
    /\ clearedAt = [r \in Runs |-> <<>>]
    /\ moved = [r \in Runs |-> <<>>]
    /\ scanArgs = [r \in Runs |-> <<>>]

\* ------------------------------------------------------------ GUI handlers
\* set_PMT_on / set_PMT_off act only when the MCC board is loaded
PMTAfterOn == IF mcc_loaded THEN TRUE ELSE PMT_powered
PMTAfterOff == IF mcc_loaded THEN FALSE ELSE PMT_powered

\* acquire_toggle: the branch taken for the current value of self.acquiring
ToggleStarts == ~appAcquiring

\* The producer thread's entry point for each scan mode (acquire, 219-237)
ProducerEntry(m) ==
    CASE m = "Single Frame" -> "get_frame"
      [] m = "Scan" -> "scan_begin"
      [] m = "Monitor" -> "m_enter"

\* A run's record is kept after both of its threads have ended, until the next
\* start: the new run takes the first such record and the others are cleared.
Ended(r) == ppc[r] \in {"idle", "done", "dead"} /\ cpc[r] \in {"idle", "done"}
NewRun == CHOOSE r \in Runs : Ended(r) /\ \A x \in Runs : Ended(x) => r <= x
AllEnded == \A r \in Runs : Ended(r)
Kept(f, blank) == [x \in Runs |-> IF Ended(x) THEN blank ELSE f[x]]

\* acquire(), first part: acquiring = True, getSettings, update_settings.
\* update_settings asserts that the microscope is not acquiring; the
\* AssertionError leaves the handler with acquiring set and nothing started.
Acquire1(s) ==
    /\ gui = "ready"
    /\ ToggleStarts
    /\ \E r \in Runs : Ended(r)
    /\ AllEnded \/ overlaps < MaxOverlaps
    /\ overlaps' = IF AllEnded THEN overlaps ELSE overlaps + 1
    /\ appAcquiring' = TRUE
    /\ IF micAcquiring
         THEN UNCHANGED <<gui, settings, micSimulate>>
         ELSE /\ gui' = "acquire2"
              /\ settings' = s
              /\ micSimulate' = s.simulate
    /\ UNCHANGED <<micAcquiring, PMT_powered, microscope_open, cur,
                   mode, ppc, cpc, image_q, pushed, forwarded, positions, idx,
                   scanSim, monSim, failure, stopReq, pmts, galvos, clearedAt, moved, scanArgs, waveVars>>

\* acquire(), second part: queue, consumer thread, PMTs and shutter, producer.
\* Once the handler returns, the 500 ms timer's update() replaces self.settings
\* with whatever the widgets hold, so the value acquire() stored is kept only
\* while acquire() reads it; acquire_scan takes the settings as an input.
Acquire2 ==
    /\ gui = "acquire2"
    /\ LET r == NewRun IN
        /\ cur' = r
        /\ cpc' = [x \in Runs |-> IF x = r THEN "check" ELSE Kept(cpc, "idle")[x]]
        /\ mode' = [x \in Runs |-> IF x = r THEN settings.mode ELSE Kept(mode, "none")[x]]
        /\ ppc' = [x \in Runs |-> IF x = r THEN ProducerEntry(settings.mode)
                                  ELSE Kept(ppc, "idle")[x]]
        /\ image_q' = Kept(image_q, <<>>)
        /\ pushed' = Kept(pushed, <<>>)
        /\ forwarded' = Kept(forwarded, <<>>)
        /\ positions' = Kept(positions, <<>>)
        /\ idx' = Kept(idx, 0)
        /\ scanSim' = Kept(scanSim, FALSE)
        /\ monSim' = Kept(monSim, FALSE)
        /\ failure' = Kept(failure, "none")
        /\ stopReq' = Kept(stopReq, FALSE)
        /\ clearedAt' = Kept(clearedAt, <<>>)
        /\ moved' = Kept(moved, <<>>)
        /\ scanArgs' = Kept(scanArgs, <<>>)
    /\ IF ~settings.simulate
         THEN /\ PMT_powered' = PMTAfterOn
              /\ microscope_open' = TRUE
         ELSE UNCHANGED <<PMT_powered, microscope_open>>
    /\ gui' = "ready"
    /\ settings' = DefaultSettings
    /\ UNCHANGED <<appAcquiring, micAcquiring, micSimulate, pmts, galvos, overlaps, waveVars>>

FramesIn(seq) == Len(SelectSeq(seq, LAMBDA x : x # None))
SentinelsIn(seq) == Len(SelectSeq(seq, LAMBDA x : x = None))

\* stop_acquire (239-243) seen from the producers: the runs whose producer is
\* inside the loop of get_frames (156-175), or inside acquire_scan (278-311),
\* when the flags are cleared
InLoop(r) == ppc[r] \in {"m_check", "m_read"}
InScan(r) == mode[r] = "Scan" /\ ppc[r] \notin {"idle", "done", "dead"}
FlagCleared ==
    [r \in Runs |-> IF (InLoop(r) \/ InScan(r)) /\ clearedAt[r] = <<>>
                      THEN <<FramesIn(pushed[r])>> ELSE clearedAt[r]]

\* The run a stop request is aimed at: the latest one started
MarkStop == [r \in Runs |-> IF r = cur THEN TRUE ELSE stopReq[r]]

\* acquire_toggle while acquiring: stop_acquire() in the GUI thread
StopAcquire ==
    /\ gui = "ready"
    /\ ~ToggleStarts
    /\ micAcquiring' = FALSE
    /\ PMT_powered' = PMTAfterOff
    /\ microscope_open' = FALSE
    /\ appAcquiring' = FALSE
    /\ stopReq' = MarkStop
    /\ clearedAt' = FlagCleared
    /\ UNCHANGED <<micSimulate, settings, gui, cur, mode, ppc, cpc,
                   image_q, pushed, forwarded, positions, idx, scanSim, monSim,
                   failure, pmts, galvos, overlaps, moved, scanArgs, waveVars>>

\* ---------------------------------------------------------------- producers
Running(r) == ppc[r] \notin {"idle", "done", "dead"}

\* A queue that hands out the newest item first
Put_lifo(r, item) ==
    /\ image_q' = [image_q EXCEPT ![r] = <<item>> \o @]
    /\ pushed' = [pushed EXCEPT ![r] = Append(@, item)]

\* image_q.put(item)
Put(r, item) ==
    /\ image_q' = [image_q EXCEPT ![r] = Append(@, item)]
    /\ pushed' = [pushed EXCEPT ![r] = Append(@, item)]

\* acquire_scan: "except: break" leads to the sentinel put after the loop
ScanAfterFailure == "put_sentinel"

\* Where an exception raised inside get_frame / move_abs takes the producer:
\* caught by acquire_scan's try (hardware branch only), otherwise it ends the thread
AfterException(r) ==
    IF mode[r] = "Scan" /\ ~scanSim[r] THEN ScanAfterFailure ELSE "dead"

Fail(r, what) ==
    /\ failure' = [failure EXCEPT ![r] = what]
    /\ ppc' = [ppc EXCEPT ![r] = AfterException(r)]

\* __configure_microscope (hardware branch): waveform generation, AnalogInput(),
\* AnalogOutput(), galvos.write().  out is how far it got before raising.
ConfigureOutcomes == {"ok", "fail_ai", "fail_ao", "fail_write"}

Configure(out) ==
    /\ pmts' = IF out = "fail_ai" THEN pmts ELSE NewTask
    /\ galvos' = CASE out = "ok" -> AOWrite(NewTask)
                   [] out = "fail_write" -> NewTask
                   [] OTHER -> galvos

\* The release sequence shared by get_frame (137-140) and get_frames (177-180)
ReleaseGalvos == TaskClear(TaskStop(galvos))
ReleasePmts == TaskClear(TaskStop(TaskStart(pmts)))

\* The loop of acquire_scan after a frame was put: range(10), or the positions
ScanLoop(r, i) ==
    IF scanSim[r]
      THEN (IF i < SimScanFrames THEN "get_frame" ELSE "put_sentinel")
      ELSE (IF i < Len(positions[r]) THEN "move" ELSE "put_sentinel")

\* frame = get_frame(); image_q.put(frame): acquire_frame 274-275,
\* acquire_scan 284-285 and 305-306
PutFrame(r) ==
    /\ Put(r, FramesIn(pushed[r]) + 1)
    /\ IF mode[r] = "Scan"
         THEN /\ idx' = [idx EXCEPT ![r] = @ + 1]
              /\ ppc' = [ppc EXCEPT ![r] = ScanLoop(r, idx[r] + 1)]
         ELSE /\ ppc' = [ppc EXCEPT ![r] = "put_sentinel"]
              /\ UNCHANGED idx

\* get_frame, 130-134: the simulate branch sleeps and returns random data (the
\* caller puts it); the hardware branch configures both tasks
GetFrame(r) ==
    /\ ppc[r] = "get_frame"
    /\ IF micSimulate
         THEN /\ PutFrame(r)
              /\ UNCHANGED <<failure, pmts, galvos>>
         ELSE /\ \E out \in ConfigureOutcomes :
                   /\ Configure(out)
                   /\ IF out = "ok"
                        THEN /\ ppc' = [ppc EXCEPT ![r] = "gf_read"]
                             /\ UNCHANGED failure
                        ELSE Fail(r, "configure")
              /\ UNCHANGED <<image_q, pushed, idx>>
    /\ UNCHANGED <<appAcquiring, micAcquiring, micSimulate, settings,
                   PMT_powered, microscope_open, gui, cur, mode, cpc,
                   forwarded, positions, scanSim, monSim, stopReq, overlaps, clearedAt, moved, scanArgs, waveVars>>

\* get_frame, 135-144: pmts.read starts the input task and blocks (it may fail
\* or time out), pmts.wait (may time out), stop and clear both tasks,
\* process_frame, return; the caller puts the frame
GF_Read(r) ==
    /\ ppc[r] = "gf_read"
    /\ \/ /\ Held(pmts)
          /\ pmts' = ReleasePmts
          /\ galvos' = ReleaseGalvos
          /\ PutFrame(r)
          /\ UNCHANGED failure
       \/ /\ \E what \in {"read", "wait"} : Fail(r, what)
          /\ pmts' = IF Held(pmts) THEN TaskStart(pmts) ELSE pmts
          /\ UNCHANGED <<galvos, image_q, pushed, idx>>
    /\ UNCHANGED <<appAcquiring, micAcquiring, micSimulate, settings,
                   PMT_powered, microscope_open, gui, cur, mode, cpc,
                   forwarded, positions, scanSim, monSim, stopReq, overlaps, clearedAt, moved, scanArgs, waveVars>>

\* image_q.put(None): the sentinel (276, 311)
PutSentinel(r) ==
    /\ ppc[r] = "put_sentinel"
    /\ Put(r, None)
    /\ ppc' = [ppc EXCEPT ![r] = "done"]
    /\ UNCHANGED <<appAcquiring, micAcquiring, micSimulate, settings,
                   PMT_powered, microscope_open, gui, cur, mode, cpc, forwarded,
                   positions, idx, scanSim, monSim, failure, stopReq, pmts, galvos, overlaps, clearedAt, moved, scanArgs, waveVars>>

\* acquire_scan, 281-296: the simulate branch, or the scan points.  s is
\* self.settings as the thread finds it: what acquire() stored, or what update()
\* (328-331, every 500 ms) has copied from the widgets since.
ScanBegin(r, s) ==
    /\ ppc[r] = "scan_begin"
    /\ scanSim' = [scanSim EXCEPT ![r] = s.simulate]
    /\ scanArgs' = [scanArgs EXCEPT ![r] =
                      IF s.simulate THEN <<>> ELSE <<s.start, s.end, s.step>>]
    /\ LET pts == IF s.simulate THEN <<>> ELSE ScanPoints(s.start, s.end, s.step) IN
        /\ positions' = [positions EXCEPT ![r] = [i \in 1..Len(pts) |-> DelayPosition(pts[i])]]
        /\ ppc' = [ppc EXCEPT ![r] =
                     IF s.simulate THEN "get_frame"
                     ELSE IF Len(pts) > 0 THEN "move" ELSE "put_sentinel"]
    /\ UNCHANGED <<appAcquiring, micAcquiring, micSimulate, settings,
                   PMT_powered, microscope_open, gui, cur, mode, cpc, image_q,
                   pushed, forwarded, idx, monSim, failure, stopReq, pmts, galvos, overlaps, clearedAt, moved, waveVars>>

\* acquire_scan, 303: delay_stage.move_abs(position), which may raise
Move(r) ==
    /\ ppc[r] = "move"
    /\ moved' = [moved EXCEPT ![r] = Append(@, positions[r][idx[r] + 1])]
    /\ \/ /\ ppc' = [ppc EXCEPT ![r] = "get_frame"]
          /\ UNCHANGED failure
       \/ Fail(r, "move")
    /\ UNCHANGED <<appAcquiring, micAcquiring, micSimulate, settings,
                   PMT_powered, microscope_open, gui, cur, mode, cpc, image_q,
                   pushed, forwarded, positions, idx, scanSim, monSim, stopReq,
                   pmts, galvos, overlaps, clearedAt, scanArgs, waveVars>>

\* get_frames, 153-165: the producer sets the microscope's flag itself, then
\* takes the simulate branch or configures both tasks in continuous mode
M_Enter(r) ==
    /\ ppc[r] = "m_enter"
    /\ micAcquiring' = TRUE
    /\ monSim' = [monSim EXCEPT ![r] = micSimulate]
    /\ IF micSimulate
         THEN /\ ppc' = [ppc EXCEPT ![r] = "m_check"]
              /\ UNCHANGED <<failure, pmts, galvos>>
         ELSE \E out \in ConfigureOutcomes :
                /\ Configure(out)
                /\ IF out = "ok"
                     THEN /\ ppc' = [ppc EXCEPT ![r] = "m_check"]
                          /\ UNCHANGED failure
                     ELSE Fail(r, "configure")
    /\ UNCHANGED <<appAcquiring, micSimulate, settings, PMT_powered,
                   microscope_open, gui, cur, mode, cpc, image_q, pushed,
                   forwarded, positions, idx, scanSim, stopReq, overlaps, clearedAt, moved, scanArgs, waveVars>>

\* get_frames, "while self.acquiring" (156, 166)
LoopContinues == micAcquiring

M_Check(r) ==
    /\ ppc[r] = "m_check"
    /\ IF LoopContinues
         THEN /\ FramesIn(pushed[r]) < MaxMonitorFrames
              /\ ppc' = [ppc EXCEPT ![r] = "m_read"]
         ELSE ppc' = [ppc EXCEPT ![r] = "m_exit"]
    /\ UNCHANGED <<appAcquiring, micAcquiring, micSimulate, settings,
                   PMT_powered, microscope_open, gui, cur, mode, cpc, image_q,
                   pushed, forwarded, positions, idx, scanSim, monSim, failure,
                   stopReq, pmts, galvos, overlaps, clearedAt, moved, scanArgs, waveVars>>

\* get_frames, loop body: read (or simulated work), process_frame, put.  Only
\* KeyboardInterrupt is caught, so a failed or timed-out read leaves get_frames.
M_Read(r) ==
    /\ ppc[r] = "m_read"
    /\ IF monSim[r]
         THEN /\ Put(r, FramesIn(pushed[r]) + 1)
              /\ ppc' = [ppc EXCEPT ![r] = "m_check"]
              /\ UNCHANGED <<failure, pmts>>
         ELSE /\ pmts' = IF Held(pmts) THEN TaskStart(pmts) ELSE pmts
              /\ \/ /\ Held(pmts)
                    /\ Put(r, FramesIn(pushed[r]) + 1)
                    /\ ppc' = [ppc EXCEPT ![r] = "m_check"]
                    /\ UNCHANGED failure
                 \/ /\ Fail(r, "read")
                    /\ UNCHANGED <<image_q, pushed>>
    /\ UNCHANGED <<appAcquiring, micAcquiring, micSimulate, settings,
                   PMT_powered, microscope_open, gui, cur, mode, cpc, forwarded,
                   positions, idx, scanSim, monSim, stopReq, galvos, overlaps, clearedAt, moved, scanArgs, waveVars>>

\* get_frames, 177-182: after the loop stop and clear both tasks (hardware
\* branch), then put the sentinel
M_Exit(r) ==
    /\ ppc[r] = "m_exit"
    /\ IF monSim[r]
         THEN UNCHANGED <<pmts, galvos>>
         ELSE /\ galvos' = TaskClear(TaskStop(galvos))
              /\ pmts' = TaskClear(TaskStop(pmts))
    /\ Put(r, None)
    /\ ppc' = [ppc EXCEPT ![r] = "done"]
    /\ UNCHANGED <<appAcquiring, micAcquiring, micSimulate, settings,
                   PMT_powered, microscope_open, gui, cur, mode, cpc,
                   forwarded, positions, idx, scanSim, monSim, failure,
                   stopReq, overlaps, clearedAt, moved, scanArgs, waveVars>>

Producer(r, S) ==
    \/ GetFrame(r)
    \/ GF_Read(r)
    \/ PutSentinel(r)
    \/ \E s \in S : ScanBegin(r, s)
    \/ Move(r)
    \/ M_Enter(r)
    \/ M_Check(r)
    \/ M_Read(r)
    \/ M_Exit(r)

\* ----------------------------------------------------------------- consumer
\* process_frames: "while self.acquiring"
C_Check(r) ==
    /\ cpc[r] = "check"
    /\ cpc' = [cpc EXCEPT ![r] = IF appAcquiring THEN "get" ELSE "done"]
    /\ UNCHANGED <<appAcquiring, micAcquiring, micSimulate, settings,
                   PMT_powered, microscope_open, gui, cur, mode, ppc, image_q,
                   pushed, forwarded, positions, idx, scanSim, monSim, failure,
                   stopReq, pmts, galvos, overlaps, clearedAt, moved, scanArgs, waveVars>>

\* A consumer that handles the sentinel like a frame
OnItem_forward(item) == "check"
\* What the consumer does with a dequeued item: a sentinel starts stop_acquire,
\* a frame is stored, saved and displayed, and the loop goes on
OnItem(item) == IF item = None THEN "stop2" ELSE "check"

\* frame = image_q.get() (blocks while the queue is empty) and its handling.
\* On a sentinel stop_acquire runs up to the shutter; acquiring is cleared next.
C_Get(r) ==
    /\ cpc[r] = "get"
    /\ image_q[r] # <<>>
    /\ LET item == Head(image_q[r]) IN
        /\ image_q' = [image_q EXCEPT ![r] = Tail(@)]
        /\ cpc' = [cpc EXCEPT ![r] = OnItem(item)]
        /\ IF OnItem(item) = "stop2"
             THEN /\ micAcquiring' = FALSE
                  /\ PMT_powered' = PMTAfterOff
                  /\ microscope_open' = FALSE
                  /\ clearedAt' = FlagCleared
                  /\ UNCHANGED forwarded
             ELSE /\ forwarded' = [forwarded EXCEPT ![r] = Append(@, item)]
                  /\ UNCHANGED <<micAcquiring, PMT_powered, microscope_open, clearedAt>>
    /\ UNCHANGED <<appAcquiring, micSimulate, settings, gui, cur,
                   mode, ppc, pushed, positions, idx, scanSim, monSim, failure,
                   stopReq, pmts, galvos, overlaps, moved, scanArgs, waveVars>>

\* stop_acquire, last statements (243), then "break"
C_Stop2(r) ==
    /\ cpc[r] = "stop2"
    /\ appAcquiring' = FALSE
    /\ cpc' = [cpc EXCEPT ![r] = "done"]
    /\ UNCHANGED <<micAcquiring, micSimulate, settings, PMT_powered,
                   microscope_open, gui, cur, mode, ppc, image_q, pushed,
                   forwarded, positions, idx, scanSim, monSim, failure, stopReq,
                   pmts, galvos, overlaps, clearedAt, moved, scanArgs, waveVars>>

Consumer(r) == C_Check(r) \/ C_Get(r) \/ C_Stop2(r)

\* ------------------------------------------------- waveforms and decoding
\* Voltages are exact fractions <<numerator, denominator>>, denominator > 0
QMul(x, y) == <<x[1] * y[1], x[2] * y[2]>>
QAdd(x, y) == <<x[1] * y[2] + y[1] * x[2], x[2] * y[2]>>
QSub(x, y) == <<x[1] * y[2] - y[1] * x[2], x[2] * y[2]>>
QLe(x, y) == x[1] * y[2] <= y[1] * x[2]

\* the galvo range of np.clip(x_data, -10, 10)
GalvoLimit == 10

\* the same, with the clipping left out
Clip_unclipped(v) == v

\* np.clip(v, -10, 10)
Clip(v) ==
    IF QLe(v, <<-GalvoLimit, 1>>) THEN <<-GalvoLimit, 1>>
    ELSE IF QLe(<<GalvoLimit, 1>>, v) THEN <<GalvoLimit, 1>>
    ELSE v

\* np.linspace(-1, 1, pixels)[i]
Linspace(i, pixels) ==
    IF pixels = 1 THEN <<-1, 1>> ELSE <<2 * i - (pixels - 1), pixels - 1>>

\* the same, with np.repeat left out
sawtooth_norepeat(j, pixels, samples_per_pixel) == Linspace(j % pixels, pixels)

\* sawtooth(pixels, samples_per_pixel, number_of_lines)[j]: linspace, repeat, tile
sawtooth(j, pixels, samples_per_pixel) ==
    Linspace((j \div samples_per_pixel) % pixels, pixels)

\* the same, with no ramp flipped
triangle_noflip(j, pixels, samples_per_pixel) == sawtooth(j, pixels, samples_per_pixel)

\* triangle(pixels, samples_per_pixel, number_of_lines)[j]: every odd ramp flipped
triangle(j, pixels, samples_per_pixel) ==
    LET width == pixels * samples_per_pixel
        line == j \div width
        p == j % width
    IN  IF line % 2 = 1
          THEN sawtooth(line * width + (width - 1 - p), pixels, samples_per_pixel)
          ELSE sawtooth(j, pixels, samples_per_pixel)

\* cos(pi/m) in thousandths
CosPiOver(m) ==
    CASE m = 1 -> -1000
      [] m = 2 -> 0
      [] m = 3 -> 500
      [] m = 4 -> 707
      [] m = 5 -> 809
      [] m = 6 -> 866
      [] OTHER -> 1000 - (4935 \div (m * m))

\* cos(k*pi/m) in thousandths, by cos(k t) = 2 cos(t) cos((k-1) t) - cos((k-2) t)
RECURSIVE CosMilli(_, _)
CosMilli(k, m) ==
    IF k = 0 THEN 1000
    ELSE IF k = 1 THEN CosPiOver(m)
    ELSE (2 * CosPiOver(m) * CosMilli(k - 1, m)) \div 1000 - CosMilli(k - 2, m)

\* generate_flyback(amplitude, offset, pixels)[k]: amplitude*cos(linspace(0,pi)) - offset
generate_flyback(k, amplitude, offset, pixels) ==
    QSub(QMul(amplitude, <<CosMilli(k, pixels - 1), 1000>>), offset)

\* int(resolution[0] / fill_fraction), the fill fraction being fn/fd
TotalScan(res, fn, fd) == (res * fd) \div fn

\* int(0.5 * d): truncation toward zero
IntHalf(d) == IF d >= 0 THEN d \div 2 ELSE -((-d) \div 2)

\* samples_per_line of the sawtooth pattern with the flyback left out
SawtoothSamplesPerLine_noflyback(total_scan, flyback) == total_scan

\* samples_per_line of the sawtooth pattern (96)
SawtoothSamplesPerLine(total_scan, flyback) == total_scan + flyback

\* samples_per_line of the bidirectional pattern (149)
BidirectionalSamplesPerLine(total_scan) == total_scan

\* the same, with the trailing padding left out
Pad_notrail(d, pad0, pad1) ==
    [i \in 1..(pad0 + Len(d)) |-> IF i <= pad0 THEN d[1] ELSE d[i - pad0]]

\* np.concatenate((np.full(padding[0], d[0]), d, np.full(padding[1], d[-1])))
Pad(d, pad0, pad1) ==
    [i \in 1..(pad0 + Len(d) + pad1) |->
        IF i <= pad0 THEN d[1]
        ELSE IF i <= pad0 + Len(d) THEN d[i - pad0]
        ELSE d[Len(d)]]

\* amplitude * sawtooth(resolution[1], samples_per_line) - offset[1], clipped
YData(res, amplitude, offset_y, samples_per_line) ==
    [j \in 1..(res * samples_per_line) |->
        Clip(QSub(QMul(<<amplitude, 1>>, sawtooth(j - 1, res, samples_per_line)),
                  <<offset_y, 1>>))]

generate_sawtooth_scan(res, amplitude, offset_x, offset_y, fn, fd, flyback, pad0, pad1) ==
    LET total_scan == TotalScan(res, fn, fd)
        throwaway == total_scan - res
        samples_per_line == SawtoothSamplesPerLine(total_scan, flyback)
        total_amplitude == <<amplitude * fd, fn>>
        ff_offset == QMul(<<fd - fn, fd>>, total_amplitude)
        total_offset == QAdd(ff_offset, <<offset_x, 1>>)
        x_line(i) ==
            IF i < total_scan
              THEN QSub(QMul(total_amplitude, sawtooth(i, total_scan, 1)), total_offset)
              ELSE generate_flyback(i - total_scan, total_amplitude, total_offset, flyback)
        x_data == [j \in 1..(samples_per_line * res) |->
                      Clip(x_line((j - 1) % samples_per_line))]
        y_data == YData(res, amplitude, offset_y, samples_per_line)
    IN  [x_data |-> Pad(x_data, pad0, pad1), y_data |-> Pad(y_data, pad0, pad1),
         samples_per_line |-> samples_per_line, throwaway |-> throwaway,
         flyback |-> flyback, padding |-> <<pad0, pad1>>]

generate_bidirectional_scan(res, amplitude, offset_x, offset_y, fn, fd, pad0, pad1) ==
    LET total_scan == TotalScan(res, fn, fd)
        throwaway == IntHalf(total_scan - res)
        samples_per_line == BidirectionalSamplesPerLine(total_scan)
        total_amplitude == <<amplitude * fd, fn>>
        x_data == [j \in 1..(total_scan * res) |->
                      Clip(QSub(QMul(total_amplitude, triangle(j - 1, total_scan, 1)),
                                <<offset_x, 1>>))]
        y_data == YData(res, amplitude, offset_y, samples_per_line)
    IN  [x_data |-> Pad(x_data, pad0, pad1), y_data |-> Pad(y_data, pad0, pad1),
         samples_per_line |-> samples_per_line, throwaway |-> throwaway,
         padding |-> <<pad0, pad1>>]

\* A slice bound of Python: a negative bound counts from the end, and every
\* bound is clamped to 0..len
SliceBound(i, len) ==
    IF i < 0 THEN (IF i + len < 0 THEN 0 ELSE i + len)
    ELSE (IF i < len THEN i ELSE len)

\* s[a:b] of Python
PySlice(s, a, b) == SubSeq(s, SliceBound(a, Len(s)) + 1, SliceBound(b, Len(s)))

\* np.array_split(s, n): the first len % n sections have one element more
ArraySplit(s, n) ==
    LET each == Len(s) \div n
        extras == Len(s) % n
        first(k) == k * each + (IF k < extras THEN k ELSE extras)
    IN  [k1 \in 1..n |-> PySlice(s, first(k1 - 1), first(k1))]

\* the same, with nothing reversed
Flip_identity(s) == s

\* np.flip(row)
Flip(s) == [i \in 1..Len(s) |-> s[Len(s) + 1 - i]]

\* the same, with the scan delay left out
FrameStart_nodelay(start_wait, delay) == start_wait

\* channel_data[self.start_wait+self.delay:]
FrameStart(start_wait, delay) == start_wait + delay

\* process_frame(raw_data) with the microscope's attributes
process_frame(raw_data, res, start_wait, delay, throwaway, scan_pattern) ==
    [channel \in 1..Len(raw_data) |->
        LET channel_data ==
                PySlice(raw_data[channel], FrameStart(start_wait, delay),
                        Len(raw_data[channel]))
            lines == ArraySplit(channel_data, res)
        IN  [line \in 1..res |->
                LET line_data == PySlice(lines[line], throwaway, throwaway + res)
                IN  IF scan_pattern = "bidirectional" /\ (line - 1) % 2 = 1
                      THEN Flip(line_data) ELSE line_data]]

\* The attributes the bench draws: resolution, fill fraction fn/fd, flyback,
\* amplitude (MAX_GALVO_VOLTAGE / zoom), offsets, start_wait, delay.
\* update_settings stores what it is given: WaveArgs has the fill fractions in
\* (0, 1] and resolutions >= 1, BadGeometryArgs the others.
Amplitudes == {1, GalvoLimit, MaxAmplitude}
Offsets == {<<0, 0>>, <<MaxOffset, -MaxOffset>>}
WaveArgs ==
    {a \in [resolution : 1..MaxRes, fn : 1..MaxDen, fd : 1..MaxDen,
            flyback : 0..MaxFlyback, amplitude : Amplitudes,
            offset : Offsets,
            start_wait : 0..MaxPad, delay : 0..MaxPad,
            scan_pattern : {"sawtooth", "bidirectional"},
            channels : 1..MaxChannels] : a.fn <= a.fd}

ValidGeometry(a) == a.fn >= 1 /\ a.fn <= a.fd /\ a.resolution >= 1

BadGeometryArgs ==
    {a \in [resolution : 0..MaxRes, fn : 0..(MaxDen + 1), fd : 1..MaxDen,
            flyback : {0, MaxFlyback}, amplitude : {GalvoLimit},
            offset : {<<0, 0>>}, start_wait : {0}, delay : {MaxPad},
            scan_pattern : {"sawtooth", "bidirectional"},
            channels : {1}] : ~ValidGeometry(a)}

NoArgs == [resolution |-> 0]
NoWave == [samples_per_line |-> 0]

WaveOff ==
    /\ wpc = "off"
    /\ args = NoArgs
    /\ wave = NoWave
    /\ raw_block = <<>>
    /\ decoded = <<>>

WaveInit ==
    /\ wpc = "args"
    /\ args \in WaveArgs \cup BadGeometryArgs
    /\ wave = NoWave
    /\ raw_block = <<>>
    /\ decoded = <<>>

\* Where the generators raise: int(resolution[0] / fill_fraction) divides by
\* zero (94, 147), and x_data[0] of an empty waveform is an IndexError (117, 166)
GeneratorRaises(a) ==
    IF a.fn = 0 THEN TRUE
    ELSE LET total_scan == TotalScan(a.resolution, a.fn, a.fd)
             samples_per_line ==
                 IF a.scan_pattern = "sawtooth"
                   THEN SawtoothSamplesPerLine(total_scan, a.flyback)
                   ELSE BidirectionalSamplesPerLine(total_scan)
         IN  samples_per_line * a.resolution = 0

\* __configure_microscope, 61-97: the waveform of the chosen pattern and
\* read_samples = samples_per_line * resolution + sum(padding)
ConfigureWaveform ==
    /\ wpc = "args"
    /\ ~GeneratorRaises(args)
    /\ LET w == IF args.scan_pattern = "sawtooth"
                  THEN generate_sawtooth_scan(args.resolution, args.amplitude,
                           args.offset[1], args.offset[2], args.fn, args.fd,
                           args.flyback, args.start_wait, args.delay)
                  ELSE generate_bidirectional_scan(args.resolution, args.amplitude,
                           args.offset[1], args.offset[2], args.fn, args.fd,
                           args.start_wait, args.delay)
       IN  wave' = [x_data |-> w.x_data, y_data |-> w.y_data,
                    samples_per_line |-> w.samples_per_line,
                    throwaway |-> w.throwaway, flyback |-> args.flyback,
                    padding |-> w.padding,
                    read_samples |-> w.samples_per_line * args.resolution
                                     + w.padding[1] + w.padding[2]]
    /\ wpc' = "configured"
    /\ UNCHANGED <<args, raw_block, decoded, pipeVars>>

\* __configure_microscope when the generator raises: nothing is assigned
ConfigureRaises ==
    /\ wpc = "args"
    /\ GeneratorRaises(args)
    /\ wpc' = "failed"
    /\ UNCHANGED <<args, wave, raw_block, decoded, pipeVars>>

\* The value of pixel (row, col) of a channel's image, all distinct and positive
Pixel(channel, row, col) ==
    1 + (channel - 1) * args.resolution * args.resolution + row * args.resolution + col

\* A raw block of read_samples + extra per channel that holds pixel (row, col)
\* at index start_wait + delay + row*samples_per_line + throwaway + col, and a
\* distinct negative value everywhere else
PixelIndex(row, col) ==
    args.start_wait + args.delay + row * wave.samples_per_line + wave.throwaway + col

RawBlock(extra) ==
    [channel \in 1..args.channels |->
        [i \in 1..(wave.read_samples + extra) |->
            IF \E row, col \in 0..(args.resolution - 1) : PixelIndex(row, col) = i - 1
              THEN LET rc == CHOOSE rc \in (0..(args.resolution - 1)) \X (0..(args.resolution - 1)) :
                                PixelIndex(rc[1], rc[2]) = i - 1
                   IN  Pixel(channel, rc[1], rc[2])
              ELSE -i]]

\* process_frame(raw_data) on a block of read_samples per channel (what
\* get_frame, 135-143, reads) or of MaxExtra samples more
ProcessFrame ==
    /\ wpc = "configured"
    /\ \E extra \in {0, MaxExtra} :
          /\ raw_block' = RawBlock(extra)
          /\ decoded' = process_frame(RawBlock(extra), args.resolution,
                                      args.start_wait, args.delay,
                                      wave.throwaway, args.scan_pattern)
    /\ wpc' = "decoded"
    /\ UNCHANGED <<args, wave, pipeVars>>

\* ------------------------------------------------------------ specification
vars == <<pipeVars, waveVars>>

Init == PipeInit /\ WaveOff

\* One acquisition at a time: the operator presses start only after the threads
\* of the previous acquisition have ended.  Every setting is available.
AcquireAfterEnd(s) == AllEnded /\ Acquire1(s)

Next ==
    \/ \E s \in Settings : AcquireAfterEnd(s)
    \/ Acquire2
    \/ StopAcquire
    \/ \E r \in Runs : Producer(r, Settings)
    \/ \E r \in Runs : Consumer(r)

Spec == Init /\ [][Next]_vars

\* The operator may also press start while threads of the previous acquisition
\* are alive (at most MaxOverlaps times); the settings are OverlapSettings.
OverlapNext ==
    \/ \E s \in OverlapSettings : Acquire1(s)
    \/ Acquire2
    \/ StopAcquire
    \/ \E r \in Runs : Producer(r, OverlapSettings)
    \/ \E r \in Runs : Consumer(r)

OverlapSpec == Init /\ [][OverlapNext]_vars

\* The waveform bench: one set of attributes, __configure_microscope, then the
\* decoding of one raw block
WaveNext == ConfigureWaveform \/ ConfigureRaises \/ ProcessFrame

BenchInit == PipeInit /\ WaveInit

WaveSpec == BenchInit /\ [][WaveNext]_vars
\* ------------------------------------------------------------------ claims
BothEnded(r) == ppc[r] \in {"done", "dead"} /\ cpc[r] = "done"

\* C1: a Single Frame run whose producer met no error and which received no
\* stop request has, once both of its threads have ended, put exactly one frame
\* and then one sentinel, and its consumer has forwarded exactly that frame
C1_SingleFrameDelivered ==
    \A r \in Runs :
        (mode[r] = "Single Frame" /\ failure[r] = "none" /\ ~stopReq[r] /\ BothEnded(r))
            => (pushed[r] = <<1, None>> /\ forwarded[r] = <<1>>)

\* C2: a Scan run in which a stage move or a frame acquisition failed has,
\* once its producer has ended, put one frame for each completed iteration and
\* then exactly one sentinel, as the last item
C2_ScanFailureStillSentinel ==
    \A r \in Runs :
        (mode[r] = "Scan" /\ failure[r] # "none" /\ ~Running(r))
            => pushed[r] = [i \in 1..idx[r] |-> i] \o <<None>>

\* C3: no acquisition is started while the producer of an earlier acquisition
\* is still running: two producers never run at the same time
C3_OneProducerAtATime ==
    \A a, b \in Runs : (Running(a) /\ Running(b)) => a = b

\* C4: in Monitor mode, once the stop request has been made, the producer's
\* loop test finds the flag cleared, so that it leaves the loop
C4_StopEndsMonitorLoop ==
    \A r \in Runs :
        (mode[r] = "Monitor" /\ stopReq[r] /\ ppc[r] = "m_check") => ~LoopContinues

\* C5: when a finite frame acquisition (get_frame) has left by an error, at
\* configuration or at the read, no hardware task is left created and unreleased
C5_FrameTasksReleased ==
    \A r \in Runs :
        (mode[r] \in {"Single Frame", "Scan"} /\ failure[r] \in {"configure", "read", "wait"})
            => (~Held(pmts) /\ ~Held(galvos))

\* C6: after a task-creation or configuration failure the consumer is not left
\* waiting on an empty queue whose producer has ended
C6_ConsumerNotStranded ==
    \A r \in Runs :
        (failure[r] = "configure" /\ ~Running(r))
            => ~(cpc[r] = "get" /\ image_q[r] = <<>>)

\* C7: in Monitor mode, a producer that has ended after a failed or timed-out
\* read has released both hardware tasks and put the sentinel
C7_MonitorReadFailureTerminal ==
    \A r \in Runs :
        (mode[r] = "Monitor" /\ failure[r] = "read" /\ ~Running(r))
            => (SentinelsIn(pushed[r]) = 1 /\ ~Held(pmts) /\ ~Held(galvos))

Configured == wpc \in {"configured", "decoded"}

\* C8 as stated: for both patterns samples_per_line - throwaway = resolution_x
C8_AsStated ==
    (Configured /\ ValidGeometry(args)) => wave.samples_per_line - wave.throwaway = args.resolution

\* C8, amended: in the sawtooth pattern samples_per_line - throwaway - flyback
\* is resolution_x; in the bidirectional pattern samples_per_line - 2*throwaway
\* - resolution_x is 0 or 1; in both the window [throwaway, throwaway +
\* resolution_x) lies inside the line
C8_CropWindow ==
    (Configured /\ ValidGeometry(args)) =>
        /\ args.scan_pattern = "sawtooth" =>
             wave.samples_per_line - wave.throwaway - wave.flyback = args.resolution
        /\ args.scan_pattern = "bidirectional" =>
             wave.samples_per_line - 2 * wave.throwaway - args.resolution \in {0, 1}
        /\ wave.throwaway >= 0
        /\ wave.throwaway + args.resolution <= wave.samples_per_line

C8_Witness ==
    /\ wpc = "configured"
    /\ ValidGeometry(args)
    /\ args.scan_pattern = "bidirectional"
    /\ wave.throwaway > 0
    /\ wave.samples_per_line - 2 * wave.throwaway - args.resolution = 1

InGalvoRange(v) == QLe(<<-GalvoLimit, 1>>, v) /\ QLe(v, <<GalvoLimit, 1>>)

\* C9: every sample of both axes of the generated waveform, the lead and trail
\* padding included, lies in [-10, 10] volts, for both patterns
C9_WaveformInRange ==
    Configured =>
        /\ Len(wave.x_data) = wave.read_samples
        /\ Len(wave.y_data) = wave.read_samples
        /\ \A i \in 1..Len(wave.x_data) : InGalvoRange(wave.x_data[i])
        /\ \A i \in 1..Len(wave.y_data) : InGalvoRange(wave.y_data[i])

\* a waveform with padding on both sides whose raw values leave the range on
\* both axes: amplitude/fill_fraction and amplitude are above 10 V
C9_Witness ==
    /\ wpc = "configured"
    /\ args.amplitude > GalvoLimit
    /\ args.start_wait > 0 /\ args.delay > 0
    /\ args.flyback > 0
    /\ wave.x_data[1] = <<-GalvoLimit, 1>>
    /\ wave.y_data[Len(wave.y_data)] = <<GalvoLimit, 1>>

RawLengthIsReadSamples ==
    \A channel \in 1..Len(raw_block) : Len(raw_block[channel]) = wave.read_samples

\* C10: in the sawtooth pattern a raw block of read_samples per channel that
\* holds pixel (r, c) at index start_wait + delay + r*samples_per_line +
\* throwaway + c decodes to exactly that grid, for every channel
C10_DecodeRoundTrip ==
    (wpc = "decoded" /\ args.scan_pattern = "sawtooth" /\ ValidGeometry(args)
       /\ RawLengthIsReadSamples) =>
        decoded = [channel \in 1..args.channels |->
                      [row \in 1..args.resolution |->
                          [col \in 1..args.resolution |->
                              Pixel(channel, row - 1, col - 1)]]]

C10_Witness ==
    /\ wpc = "decoded"
    /\ ValidGeometry(args) /\ RawLengthIsReadSamples
    /\ args.scan_pattern = "sawtooth"
    /\ args.resolution > 1 /\ args.channels > 1
    /\ wave.throwaway > 0 /\ args.flyback > 0
    /\ args.start_wait > 0 /\ args.delay > 0
    /\ decoded[args.channels][args.resolution][args.resolution]
         = Pixel(args.channels, args.resolution - 1, args.resolution - 1)
\* C11: in the bidirectional pattern decoded row i is the cropped window of
\* line i reversed when i is odd and in order when i is even; in the sawtooth
\* pattern every row is the window in order
C11_OddRowsReversed ==
    (wpc = "decoded" /\ ValidGeometry(args) /\ RawLengthIsReadSamples) =>
        \A channel \in 1..args.channels : \A row \in 0..(args.resolution - 1) :
            decoded[channel][row + 1] =
                [col \in 1..args.resolution |->
                    raw_block[channel][
                        1 + PixelIndex(row,
                              IF args.scan_pattern = "bidirectional" /\ row % 2 = 1
                                THEN args.resolution - col ELSE col - 1)]]

C11_Witness ==
    /\ wpc = "decoded"
    /\ ValidGeometry(args) /\ RawLengthIsReadSamples
    /\ args.scan_pattern = "bidirectional"
    /\ args.resolution > 2
    /\ decoded[1][1][1] = Pixel(1, 0, 0)
    /\ decoded[1][2][1] = Pixel(1, 1, args.resolution - 1)
    /\ decoded[1][3][1] = Pixel(1, 2, 0)

\* C12: the x-axis and y-axis waveforms have the same length, which is
\* samples_per_line * resolution + lead + trail and is the number of samples
\* per channel read for one frame
C12_WaveformLength ==
    Configured =>
        /\ Len(wave.x_data) = Len(wave.y_data)
        /\ Len(wave.x_data) = wave.samples_per_line * args.resolution
                                + args.start_wait + args.delay
        /\ wave.read_samples = Len(wave.x_data)

C12_Witness ==
    /\ wpc = "configured"
    /\ ValidGeometry(args)
    /\ args.resolution > 1 /\ args.flyback > 0 /\ args.fn < args.fd
    /\ args.start_wait > 0 /\ args.delay > 0
    /\ Len(wave.y_data) > wave.samples_per_line * args.resolution

\* C13: the decoder returns no frame of full rows from a raw block whose
\* length per channel differs from read_samples
C13_WrongLengthRejected ==
    (wpc = "decoded"
       /\ \A channel \in 1..Len(decoded) : \A row \in 1..args.resolution :
             Len(decoded[channel][row]) = args.resolution)
        => RawLengthIsReadSamples

\* C14: with a fill fraction outside (0, 1] or a resolution below 1 the
\* configuration does not get past the planning of the scan
C14_InvalidGeometryRejected ==
    ~ValidGeometry(args) => ~Configured
\* The producer of run r has returned from __configure_microscope and has not
\* yet called pmts.read (get_frame 134-135; get_frames 165-168, first pass)
ConfigureCompleted(r) ==
    \/ ppc[r] = "gf_read"
    \/ ppc[r] = "m_check" /\ ~monSim[r] /\ pushed[r] = <<>>

\* C15: after configure completes (both tasks allocated, the waveform written
\* to the output task) neither the output task nor the input task has been
\* started.
C15_NothingStartedAfterConfigure ==
    \A r \in Runs :
        (ConfigureCompleted(r) /\ Held(pmts) /\ Held(galvos) /\ galvos.written) =>
            ~galvos.started /\ ~pmts.started

\* The producer of run r is about to call pmts.read on an input task that read
\* will start (AnalogInput.read 265, start 282-284)
InputStartDue(r) ==
    /\ ppc[r] = "gf_read" \/ (ppc[r] = "m_read" /\ ~monSim[r])
    /\ Held(pmts)
    /\ ~pmts.started

\* C16: in every frame acquisition, finite or continuous, the output task is
\* started before the input task is started, and the waveform has been written
\* to the output task before either task starts sampling: whenever the input
\* task is about to be started, the output task holds the waveform and has
\* been started.
C16_OutputArmedBeforeInput ==
    \A r \in Runs : InputStartDue(r) => galvos.written /\ galvos.started

\* The commands a call issues to the driver's task.  stop(): StopTask only
\* when task_started; clear(): stop() when started, then ClearTask always
StopCommands(t) == IF t.started THEN <<"StopTask">> ELSE <<>>
ClearCommands(t) == StopCommands(t) \o <<"ClearTask">>
\* x.stop(); x.clear() as get_frame and get_frames release a task
ReleaseCommands(t) == StopCommands(t) \o ClearCommands(TaskStop(t))

\* C17: stop() and release() are idempotent: called on a task that is already
\* stopped, stop() issues no command; called on a task that is already
\* released, the release issues no further stop or release command.
C17_ReleaseIdempotent ==
    \A t \in {pmts, galvos} :
        /\ (t.made /\ ~t.started) => StopCommands(t) = <<>>
        /\ t.cleared => ReleaseCommands(t) = <<>>

\* A step of the producer thread of run r
ProducerStep(r) == Running(r) /\ ppc'[r] # ppc[r]

\* C18: the producer never writes the acquiring flag: in every mode it only
\* reads the flag as its loop check, so no step of a producer thread changes
\* either acquiring flag.
C18_ProducerNeverWritesFlag ==
    [][\A r \in Runs :
          ProducerStep(r) =>
              (micAcquiring' = micAcquiring /\ appAcquiring' = appAcquiring)]_vars

\* Frames the producer of run r has pushed since the flag was cleared
FramesSinceClear(r) == FramesIn(pushed[r]) - clearedAt[r][1]

\* C19: in Monitor mode, once the acquiring flag has been cleared while the
\* producer is inside its acquisition loop, the producer pushes at most one
\* more frame (the read in flight) before it pushes the sentinel.
C19_AtMostOneFrameAfterClear ==
    \A r \in Runs :
        (mode[r] = "Monitor" /\ clearedAt[r] # <<>>) => FramesSinceClear(r) <= 1

\* The consumer of run r has dequeued the sentinel
SentinelTaken(r) == SentinelsIn(pushed[r]) > SentinelsIn(image_q[r])

\* C20: in every mode, when the consumer dequeues the sentinel it sets
\* acquiring to false and exits, and forwards no queue item to the sinks
\* afterwards: having taken the sentinel the consumer is in stop_acquire or has
\* left its loop, the step that leaves stop_acquire clears acquiring and ends
\* the consumer, and no later step adds to what it forwarded.
C20_SentinelEndsConsumer ==
    [][\A r \in Runs :
          /\ SentinelTaken(r)' => cpc'[r] \in {"stop2", "done"}
          /\ (cpc[r] = "stop2" /\ cpc'[r] # "stop2") =>
                 (~appAcquiring' /\ cpc'[r] = "done")
          /\ SentinelTaken(r) => Len(forwarded'[r]) <= Len(forwarded[r])]_vars

\* A Scan run whose consumer forwarded every frame, took the sentinel, cleared
\* the flag and ended
C20_Witness ==
    \E r \in Runs :
        /\ mode[r] = "Scan"
        /\ SentinelTaken(r)
        /\ cpc[r] = "done"
        /\ ~appAcquiring
        /\ Len(forwarded[r]) > 1
        /\ Len(forwarded[r]) = FramesIn(pushed[r])

\* Run r is a Scan on hardware that has read its scan specification
HardwareScan(r) == mode[r] = "Scan" /\ scanArgs[r] # <<>>

\* The k-th point of the specification read by run r: start, start +/- step,
\* ..., descending exactly when end < start
ScanPoint(r, k) ==
    LET start == scanArgs[r][1]
        end == scanArgs[r][2]
        step == scanArgs[r][3]
    IN  IF end < start THEN start - (k - 1) * step ELSE start + (k - 1) * step

\* The moves commanded so far are the first scan positions, in order; move k
\* precedes frame k, and frame k precedes move k+1
MovesInterleaved(r) ==
    /\ Len(moved[r]) <= Len(positions[r])
    /\ \A k \in 1..Len(moved[r]) : moved[r][k] = positions[r][k]
    /\ FramesIn(pushed[r]) <= Len(moved[r])
    /\ Len(moved[r]) <= FramesIn(pushed[r]) + 1
    /\ ppc[r] = "move" => Len(moved[r]) = FramesIn(pushed[r])
    /\ ppc[r] \in {"get_frame", "gf_read"} => Len(moved[r]) = FramesIn(pushed[r]) + 1

MidFrame(r) ==
    \/ ppc[r] = "gf_read"
    \/ InLoop(r) /\ ~monSim[r]

\* The step in which update_settings passes its assertion and assigns the
\* microscope's attributes (49-59)
UpdateSettingsTakesEffect == gui = "ready" /\ gui' = "acquire2"

\* C22: the scan parameters never change while a producer is between
\* configuring the hardware for a frame and decoding that frame:
\* update_settings takes effect only when no producer is acquiring.
C22_SettingsFrozenDuringFrame ==
    [][UpdateSettingsTakesEffect => \A r \in Runs : ~MidFrame(r)]_vars

\* Sample i (from 0) of line row of an axis of the waveform, the lead padding
\* skipped
LineSample(data, row, i) == data[args.start_wait + row * wave.samples_per_line + i + 1]

QEq(x, y) == QLe(x, y) /\ QLe(y, x)

\* C23: in both patterns the unpadded y waveform consists of exactly
\* resolution_y steps: it holds one value for all samples_per_line samples of
\* a line (flyback samples included), changes only at line boundaries, and
\* never decreases from one line to the next.
C23_YStepPerLine ==
    (Configured /\ ValidGeometry(args)) =>
        /\ Len(wave.y_data) - args.start_wait - args.delay
              = args.resolution * wave.samples_per_line
        /\ \A row \in 0..(args.resolution - 1) :
              \A i \in 0..(wave.samples_per_line - 1) :
                  QEq(LineSample(wave.y_data, row, i), LineSample(wave.y_data, row, 0))
        /\ \A row \in 0..(args.resolution - 2) :
              QLe(LineSample(wave.y_data, row, 0), LineSample(wave.y_data, row + 1, 0))

\* a sawtooth plan with flyback samples whose y value rises from every line to
\* the next
C23_Witness ==
    /\ wpc = "configured"
    /\ ValidGeometry(args)
    /\ args.scan_pattern = "sawtooth"
    /\ args.resolution = MaxRes
    /\ wave.flyback > 0
    /\ wave.samples_per_line > args.resolution + wave.flyback
    /\ \A row \in 0..(args.resolution - 2) :
          ~QLe(LineSample(wave.y_data, row + 1, 0), LineSample(wave.y_data, row, 0))

\* C24: in the bidirectional waveform every line has total_scan samples and no
\* flyback segment, each odd-indexed line's x samples are the even-indexed
\* line's x samples in reverse order, and so the last sample of each line
\* equals the first sample of the next line.
C24_BidirectionalLines ==
    (Configured /\ ValidGeometry(args) /\ args.scan_pattern = "bidirectional") =>
        LET total_scan == TotalScan(args.resolution, args.fn, args.fd)
            x(row, i) == LineSample(wave.x_data, row, i)
        IN  /\ wave.samples_per_line = total_scan
            /\ Len(wave.x_data) - args.start_wait - args.delay
                  = args.resolution * total_scan
            /\ \A row \in 0..(args.resolution - 1) : \A i \in 0..(total_scan - 1) :
                  IF row % 2 = 1
                    THEN QEq(x(row, i), x(row - 1, total_scan - 1 - i))
                    ELSE QEq(x(row, i), x(0, i))
            /\ \A row \in 0..(args.resolution - 2) :
                  QEq(x(row, total_scan - 1), x(row + 1, 0))

\* a bidirectional plan of three lines whose ramp is not constant: the odd
\* line starts where the even line ended and ends where it started
C24_Witness ==
    /\ wpc = "configured"
    /\ ValidGeometry(args)
    /\ args.scan_pattern = "bidirectional"
    /\ args.resolution = MaxRes
    /\ wave.samples_per_line > args.resolution
    /\ args.start_wait > 0
    /\ ~QEq(LineSample(wave.x_data, 0, 0),
            LineSample(wave.x_data, 0, wave.samples_per_line - 1))
    /\ QEq(LineSample(wave.x_data, 1, 0),
           LineSample(wave.x_data, 0, wave.samples_per_line - 1))

FramesOf(seq) == SelectSeq(seq, LAMBDA x : x # None)

SentinelStep(r) ==
    \/ cpc[r] = "get" /\ cpc'[r] = "stop2"
    \/ cpc[r] = "stop2" /\ cpc'[r] = "done"

\* A run started after run r has threads alive
LaterRunAlive(r) == r # cur /\ ~Ended(cur)

\* C26: a sentinel affects only the run that produced it: a sentinel pushed
\* by the producer of an earlier run never clears the acquiring flag of, or
\* stops, a later run.
C26_SentinelStaysInRun ==
    [][\A r \in Runs :
          (SentinelStep(r) /\ LaterRunAlive(r)) =>
              /\ appAcquiring' = appAcquiring
              /\ micAcquiring' = micAcquiring
              /\ PMT_powered' = PMT_powered
              /\ microscope_open' = microscope_open]_vars

\* C27: an external stop request during a Scan run halts the scan producer:
\* after the stop it acquires no frame and commands no stage move beyond the
\* position it was working on, and then pushes the sentinel.
C27_StopHaltsScan ==
    \A r \in Runs :
        (mode[r] = "Scan" /\ clearedAt[r] # <<>>) =>
            /\ FramesSinceClear(r) <= 1
            /\ Len(moved[r]) <= clearedAt[r][1] + 1

\* The pipeline is idle: acquiring is false, acquire() is not under way in the
\* GUI thread and no consumer is inside stop_acquire
Idle ==
    /\ ~appAcquiring
    /\ gui = "ready"
    /\ \A r \in Runs : cpc[r] # "stop2"

\* C28: with hardware acquisition enabled, whenever the pipeline is idle the
\* microscope shutter is closed and the PMTs are off, for every interleaving
\* of the consumer's stop on a sentinel with start and stop requests.
C28_IdleMeansDark == Idle => (~microscope_open /\ ~PMT_powered)

\* The stage position of wavenumber w lies between those of a and b
BetweenPositions(p, a, b) ==
    LET pa == PolySlope * a + PolyIntercept
        pb == PolySlope * b + PolyIntercept
    IN  IF pa <= pb THEN pa <= p /\ p <= pb ELSE pb <= p /\ p <= pa

\* C29: for every scan specification (start, stop, step > 0), also where
\* |stop - start| is not a multiple of step, every stage target the Scan
\* producer computes lies between start and stop inclusive: the stage is
\* never commanded beyond the stop position.
C29_TargetsWithinRange ==
    \A r \in Runs :
        HardwareScan(r) =>
            /\ \A k \in 1..Len(positions[r]) :
                  BetweenPositions(positions[r][k], scanArgs[r][1], scanArgs[r][2])
            /\ \A k \in 1..Len(moved[r]) :
                  BetweenPositions(moved[r][k], scanArgs[r][1], scanArgs[r][2])

\* The sample of line row (counted from the crop window's start) that
\* process_frame delivered as column col of that row
SourceColumn(row, col) ==
    CHOOSE c \in 0..(args.resolution - 1) :
        decoded[1][row + 1][col + 1] = Pixel(1, row, c)

\* C30: in the bidirectional pattern, for every resolution and fill fraction
\* in (0, 1], also where total_scan - resolution_x is odd, column c of every
\* decoded row (even rows as read, odd rows after reversal) comes from the
\* same position of the x ramp: the galvo voltage at the sample decoded as
\* column c is the same in every row.
C30_RowsAligned ==
    (/\ wpc = "decoded"
     /\ ValidGeometry(args)
     /\ RawLengthIsReadSamples
     /\ args.scan_pattern = "bidirectional") =>
        \A row \in 0..(args.resolution - 1) : \A col \in 0..(args.resolution - 1) :
            QEq(LineSample(wave.x_data, row, wave.throwaway + SourceColumn(row, col)),
                LineSample(wave.x_data, 0, wave.throwaway + col))

=============================================================================
